---- MODULE Spec2Model ----
(***************************************************************************)
(* Live-data synchronization engine of nz-traffic-cams.                    *)
(*                                                                         *)
(* TrafficService (src/services/trafficService.ts) retrieves the traffic   *)
(* camera feed through an ordered pool of relay proxies, each attempt      *)
(* guarded by an abort deadline, and falls back to a static catalog.  The  *)
(* App component (src/unnamed/part_002) starts one sync cycle when it      *)
(* mounts and one more whenever its one-second countdown runs out.         *)
(*                                                                         *)
(* Time is counted in milliseconds and advances only in IntervalTick, one  *)
(* period of the App's setInterval at a time.  Coordinates are integers in *)
(* thousandths of a degree.                                                *)
(***************************************************************************)
EXTENDS Integers, Sequences, FiniteSets, TLC

VARIABLES
  app,          \* App: "new", "mounted" (interval installed) or "unmounted"
  cameras,      \* App: useState 'cameras'
  loading,      \* App: useState 'loading'
  countdown,    \* App: useState 'countdown'
  call,         \* the fetchData calls, each with the fetchLiveCameras it awaits
  net,          \* network operations that can still deliver to the program
  clock,        \* interval periods since the network last had a delivery instant
  lastEvent,    \* what the most recent step was (history)
  probe,        \* the most recent direct call of a function of TrafficService
  voice         \* LiveCommand: its state, its sessionRef and the live sessions

\* the state of the running App and its sync cycles
appVars == <<app, cameras, loading, countdown, call, net, clock, lastEvent>>

vars ==
  <<app, cameras, loading, countdown, call, net, clock, lastEvent, probe, voice>>

-----------------------------------------------------------------------------
(* Bounds of the model *)

\* fetchData calls of one run of the App, numbered in the order they start
\* the live voice sessions that can be in progress at once
MaxSessions == 3
Sessions == 1..MaxSessions

MaxCalls == 2

Calls == 1..MaxCalls

\* the network delivers (responses, bodies, failures) every Grain-th period
Grain == 20

-----------------------------------------------------------------------------
(* Program constants *)

\* refresh period of the countdown, in seconds
REFRESH_INTERVAL_SECONDS == 60

\* period of the App's setInterval, in ms
IntervalMs == 1000

\* default 'timeout' parameter of fetchWithTimeout, in ms
timeout == 10000

\* a JavaScript number: NaN, Infinity, or the finite value v (coordinates in
\* thousandths of a degree)
Num(v) == [nan |-> FALSE, inf |-> FALSE, v |-> v]

NaN == [nan |-> TRUE, inf |-> FALSE, v |-> 0]

Infinity == [nan |-> FALSE, inf |-> TRUE, v |-> 0]

\* the time, in seconds of the day, at which the module of the service is
\* loaded and 'new Date()' of FALLBACK_CAMERAS is evaluated
LoadTime == 32400

\* Date.prototype.toLocaleTimeString: hour, minute and second, or hour and
\* minute with the options { hour: '2-digit', minute: '2-digit' }
toLocaleTimeString(t, seconds) ==
  IF seconds
  THEN <<(t \div 3600) % 24, (t \div 60) % 60, t % 60>>
  ELSE <<(t \div 3600) % 24, (t \div 60) % 60>>

SOURCE_FALLBACK == "Static Matrix Fallback"
SOURCE_LIVE == "TrafficNZ REST v4"

FALLBACK_CAMERAS ==
  << [id |-> "FB-AKL-01", region |-> "Auckland",
      latitude |-> Num(-36723), longitude |-> Num(174706),
      status |-> <<"Operational">>,
      source |-> SOURCE_FALLBACK, severity |-> "low", trend |-> "stable",
      confidence |-> 99, lastUpdate |-> toLocaleTimeString(LoadTime, TRUE)],
     [id |-> "FB-AKL-02", region |-> "Auckland",
      latitude |-> Num(-36830), longitude |-> Num(174750),
      status |-> <<"Operational">>,
      source |-> SOURCE_FALLBACK, severity |-> "low", trend |-> "stable",
      confidence |-> 99, lastUpdate |-> toLocaleTimeString(LoadTime, TRUE)] >>

PROXIES ==
  << [url |-> "https://api.allorigins.win/get?url=", type |-> "json"],
     [url |-> "https://corsproxy.io/?", type |-> "text"],
     [url |-> "https://api.codetabs.com/v1/proxy?url=", type |-> "text"] >>

\* the static enforcement cameras the App appends to every result
enforcementCameras ==
  << [id |-> "RL001", latitude |-> Num(-36797), longitude |-> Num(174766),
      source |-> "NZTA Dec 2025 Matrix"],
     [id |-> "RL002", latitude |-> Num(-36727), longitude |-> Num(174698),
      source |-> "NZTA Dec 2025 Matrix"] >>

-----------------------------------------------------------------------------
(* Feed documents and response bodies.                                     *)
(*                                                                         *)
(* A text is [pad, head, nodes]: 'pad' says that it starts with white      *)
(* space, 'head' is its first markup after the white space ("" when there  *)
(* is none) and 'nodes' are the elements of a well-formed XML document.    *)
(* A node is [tag, id, latN, lngN, latF, lngF, description, status,        *)
(* imageUrl, url, name, region, direction]: the element name, the text of  *)
(* <id>, <name>, <region> and <direction>, of                              *)
(* <location><latitude>/<longitude> and of the flat <latitude>/            *)
(* <longitude>, "" when the element is absent; <description> and <status>  *)
(* as sequences of words and <imageUrl> and <url> as sequences of the      *)
(* pieces of an address ("/" and what stands between two of them), << >>   *)
(* when the element is absent.                                             *)

XmlHead == "<response"

Node(tag, id, latN, lngN, latF, lngF) ==
  [tag |-> tag, id |-> id, latN |-> latN, lngN |-> lngN,
   latF |-> latF, lngF |-> lngF, description |-> << >>, status |-> << >>,
   imageUrl |-> << >>, url |-> << >>, name |-> "", region |-> "",
   direction |-> ""]

\* node n with a <name>, a <region> and a <direction>
Named(n, name, region, direction) ==
  [n EXCEPT !.name = name, !.region = region, !.direction = direction]

\* node n with a <description> and a <status>
Described(n, description, status) ==
  [n EXCEPT !.description = description, !.status = status]

\* node n with an <imageUrl> and a <url>
Pictured(n, imageUrl, url) == [n EXCEPT !.imageUrl = imageUrl, !.url = url]

Text(pad, head, nodes) == [pad |-> pad, head |-> head, nodes |-> nodes]

EmptyText == Text(FALSE, "", << >>)

\* two usable records of the v4 schema (nested coordinates)
DocNested ==
  Text(FALSE, XmlHead,
       << Node("trafficCamera", "1", "-36.8", "174.7", "", ""),
          Node("trafficCamera", "2", "-41.3", "174.8", "", "") >>)

\* one usable legacy record (flat coordinates) without an id, behind
\* leading white space
DocFlat ==
  Text(TRUE, XmlHead, << Node("camera", "", "", "", "-36.8", "174.7") >>)


\* one record at (0,0), one without numbers, one element that is no camera
DocUnusable ==
  Text(FALSE, XmlHead,
       << Node("camera", "7", "0", "0", "", ""),
          Node("trafficCamera", "8", "abc", "", "", "174.7"),
          Node("road", "9", "-36.8", "174.7", "", "") >>)

XmlDocs == {DocNested, DocFlat, DocUnusable}

\* a record whose latitude reads "Infinity"
DocInfinite ==
  Text(FALSE, XmlHead, << Node("camera", "5", "Infinity", "174.7", "", "") >>)

\* two records with the same <id>
DocRepeated ==
  Text(FALSE, XmlHead,
       << Node("trafficCamera", "1", "-36.8", "174.7", "", ""),
          Node("trafficCamera", "1", "-41.3", "174.8", "", "") >>)

\* two records without an <id>
DocAnonymous ==
  Text(FALSE, XmlHead,
       << Node("camera", "", "-36.8", "174.7", "", ""),
          Node("camera", "", "", "", "-41.3", "174.8") >>)

\* two records with the same report, and one with another
DocReports ==
  Text(FALSE, XmlHead,
       << Described(Pictured(Node("trafficCamera", "1", "-36.8", "174.7", "", ""),
                             <<"20.jpg">>, << >>),
                    <<"Heavy", "traffic">>, <<"Clearing">>),
          Described(Pictured(Node("camera", "", "", "", "-41.3", "174.8"),
                             << >>, <<"/", "camera", "/", "images", "/", "24.jpg">>),
                    <<"Heavy", "traffic">>, <<"Clearing">>),
          Described(Node("trafficCamera", "3", "-41.3", "174.7", "", ""),
                    <<"accident">>, <<"building">>) >>)

\* a complete record, a record at (0,0), a record with coordinates only,
\* and an element that is no camera
DocMixed ==
  Text(FALSE, XmlHead,
       << Named(Described(Node("trafficCamera", "1", "-36.8", "174.7", "", ""),
                          <<"Heavy", "traffic">>, <<"Clearing">>),
                "SH1", "Auckland", "North"),
          Node("camera", "7", "0", "0", "", ""),
          Node("camera", "", "", "", "-41.3", "174.8"),
          Node("road", "9", "-36.8", "174.7", "", "") >>)

\* a document cut off after its first record: not well-formed, though a
\* lenient parser keeps the record read before the error
DocTruncated ==
  Text(FALSE, "<response cut off",
       << Node("trafficCamera", "1", "-36.8", "174.7", "", "") >>)

\* texts a relay may send instead of the feed
ErrorTexts ==
  { EmptyText,
    Text(TRUE, "", << >>),               \* white space only
    Text(FALSE, "<!DOCTYPE html", << >>),
    Text(TRUE, "<html", << >>),
    Text(FALSE, "not xml", << >>),       \* not a well-formed document
    Text(FALSE, XmlHead, << >>) }        \* a document without records

Texts == XmlDocs \cup ErrorTexts

\* bodies on the wire: a text, or JSON of one of these shapes
JsonBodies ==
  { [json |-> k, contents |-> EmptyText] :
      k \in {"invalid", "null", "no contents", "number contents"} }
  \cup { [json |-> "object", contents |-> t] : t \in Texts }

Bodies(type) == IF type = "json" THEN JsonBodies ELSE Texts

\* the texts handed to the functions of TrafficService when they are called
\* directly
ProbeTexts ==
  XmlDocs \cup ErrorTexts
    \cup {DocInfinite, DocRepeated, DocAnonymous, DocReports, DocTruncated,
          DocMixed}

ProbeJsonBodies ==
  { [json |-> k, contents |-> EmptyText] :
      k \in {"invalid", "null", "no contents", "number contents"} }
  \cup { [json |-> "object", contents |-> t] : t \in ProbeTexts }

ProbeBodies(type) == IF type = "json" THEN ProbeJsonBodies ELSE ProbeTexts

\* image references
ProbeUrls ==
  { <<"20.jpg">>, <<"/", "20.jpg">>, <<"20.png">>, <<"foo">>,
    <<"/", "camera", "/", "images", "/", "24.jpg">>,
    <<"camera", "/", "images", "/", "24.jpg">>,
    <<"https:", "/", "/", "x", "/", "y.jpg">>,
    <<"http:", "/", "/", "x", "/", "20.jpg">>,
    <<"httpcam", "/", "20.jpg">> }

\* words of descriptions and status texts
ProbeWords ==
  { "heavy", "Heavy", "congestion", "unblocked", "slowly", "incident",
    "critical", "accident", "closure", "improving", "Clearing", "building",
    "traffic" }

\* descriptions of up to two words
ProbeReports ==
  {<< >>} \cup {<<w>> : w \in ProbeWords}
    \cup {<<v, w>> : v \in {"accident", "slowly", "traffic"}, w \in ProbeWords}

\* status texts
ProbeStatuses ==
  {<< >>, <<"Operational">>, <<"Clearing">>, <<"building">>, <<"heavy">>}

\* what the environment yields while one record is built: the id
\* `node-${Math.random().toString(36).substr(2, 5)}`,
\* Math.floor(Math.random() * 15), which lies in 0..14, and the time of
\* 'new Date()', some time after the module was loaded
Randoms ==
  { [id |-> "node-a", floor15 |-> 0, now |-> LoadTime + 150],
    [id |-> "node-b", floor15 |-> 14, now |-> LoadTime + 90] }

-----------------------------------------------------------------------------
(* TrafficService.parseTrafficXml *)

\* String.prototype.trim, on the leading edge
trim(t) == [t EXCEPT !.pad = FALSE]

\* String.prototype.startsWith
startsWith(t, prefix) == ~t.pad /\ t.head = prefix

\* parseFloat: the number a text starts with, NaN if it starts with none
parseFloat(s) ==
  CASE s = "0"        -> Num(0)
    [] s = "-36.8"    -> Num(-36800)
    [] s = "-41.3"    -> Num(-41300)
    [] s = "174.7"    -> Num(174700)
    [] s = "174.8"    -> Num(174800)
    [] s = "Infinity" -> Infinity
    [] OTHER          -> NaN

\* a || b on strings
OrElse(a, b) == IF a # "" THEN a ELSE b

\* truthiness of a number: neither NaN nor 0
Truthy(n) == ~n.nan /\ (n.inf \/ n.v # 0)

\* a parser that does not look for 'parsererror'
HasParserErrorIgnored(t) == FALSE

\* DOMParser reports 'parsererror' for anything but a well-formed document
HasParserError(t) == t.head # XmlHead

\* querySelectorAll("trafficCamera, camera")
IsCameraNode(n) == n.tag \in {"trafficCamera", "camera"}

\* a coordinate read from the nested path only
LongitudeNestedOnly(n) == parseFloat(OrElse(n.lngN, "0"))

\* const lat: the nested path first, then the flat one, then "0"
Latitude(n) == parseFloat(OrElse(OrElse(n.latN, n.latF), "0"))

\* const lng
Longitude(n) == parseFloat(OrElse(OrElse(n.lngN, n.lngF), "0"))

\* a || b on sequences
OrElseSeq(a, b) == IF a # << >> THEN a ELSE b

\* String.prototype.toLowerCase, word by word
toLowerCase(text) ==
  [i \in DOMAIN text |->
     CASE text[i] = "Heavy"       -> "heavy"
       [] text[i] = "Live"        -> "live"
       [] text[i] = "Operational" -> "operational"
       [] text[i] = "Clearing"    -> "clearing"
       [] OTHER                   -> text[i]]

\* the keywords a word contains
KeywordsIn(w) ==
  CASE w = "slowly"    -> {"slow"}
    [] w = "unblocked" -> {"blocked"}
    [] OTHER           -> {w}

\* String.prototype.includes, for a keyword
includes(text, keyword) ==
  \E i \in DOMAIN text : keyword \in KeywordsIn(text[i])

\* TrafficService.determineIntelligence
determineIntelligence(description, status) ==
  LET text == toLowerCase(description \o status) IN
    [severity |->
       IF includes(text, "heavy") \/ includes(text, "congestion")
            \/ includes(text, "blocked") THEN "high"
       ELSE IF includes(text, "slow") \/ includes(text, "moderate")
                 \/ includes(text, "incident") THEN "medium"
       ELSE IF includes(text, "critical") \/ includes(text, "accident")
                 \/ includes(text, "closure") THEN "critical"
       ELSE "low",
     trend |->
       IF includes(text, "improving") \/ includes(text, "clearing")
       THEN "improving"
       ELSE IF includes(text, "building") \/ includes(text, "increasing")
                 \/ includes(text, "escalating") THEN "escalating"
       ELSE "stable"]

BASE_TRAFFIC_URL == <<"https:", "/", "/", "trafficnz.info">>

\* url.startsWith('http'): the first piece is one of those that begin with
\* the letters http
StartsWithHttp(url) == Head(url) \in {"http:", "https:", "httpcam"}

\* /^\d+\.jpg$/.test(cleanUrl)
IsNumericJpg(url) == Len(url) = 1 /\ url[1] \in {"20.jpg", "24.jpg"}

\* TrafficService.normalizeImageUrl
normalizeImageUrl(url) ==
  IF url = << >> THEN << >>
  ELSE IF StartsWithHttp(url) THEN url
  ELSE LET cleanUrl == IF Head(url) = "/" THEN Tail(url) ELSE url IN
         IF IsNumericJpg(cleanUrl)
         THEN BASE_TRAFFIC_URL \o <<"/", "camera", "/", "images", "/">> \o cleanUrl
         ELSE BASE_TRAFFIC_URL \o <<"/">> \o cleanUrl

\* severity and trend by a random draw
IntelligenceRandom(description, status, rnd) ==
  [severity |-> IF rnd.floor15 > 7 THEN "medium" ELSE "low", trend |-> "stable"]

\* const { severity, trend } = this.determineIntelligence(description, status)
IntelligenceOf(description, status, rnd) ==
  determineIntelligence(description, status)

\* a confidence on a base of 90
ConfidenceWide(rnd) == 90 + rnd.floor15

\* 85 + Math.floor(Math.random() * 15)
ConfidenceOf(rnd) == 85 + rnd.floor15

\* the record pushed for one node; 'rnd' is what Math.random yields for it
CameraOf(n, rnd) ==
  LET description == OrElseSeq(n.description, <<"Live", "matrix", "uplink">>)
      status == OrElseSeq(n.status, <<"Operational">>)
      intel == IntelligenceOf(description, status, rnd)
  IN [id          |-> OrElse(n.id, rnd.id),
      name        |-> OrElse(n.name, "Surveillance Node"),
      description |-> description,
      region      |-> OrElse(n.region, "NZ Sector"),
      direction   |-> OrElse(n.direction, "N/A"),
      lastUpdate  |-> toLocaleTimeString(rnd.now, FALSE),
      imageUrl    |-> normalizeImageUrl(OrElseSeq(n.imageUrl, n.url)),
      latitude    |-> Latitude(n),
      longitude   |-> Longitude(n),
      status      |-> status,
      source      |-> SOURCE_LIVE,
      severity    |-> intel.severity,
      trend       |-> intel.trend,
      confidence  |-> ConfidenceOf(rnd)]

\* if (lat && lng)
Usable(n) == Truthy(Latitude(n)) /\ Truthy(Longitude(n))

\* cameraNodes.forEach; rids[k] is what Math.random yields at node k
RECURSIVE ParseNodes(_, _)
ParseNodes(nodes, rids) ==
  IF nodes = << >> THEN << >>
  ELSE LET n == Head(nodes)
           rest == ParseNodes(Tail(nodes), Tail(rids))
       IN IF IsCameraNode(n) /\ Usable(n)
          THEN <<CameraOf(n, Head(rids))>> \o rest
          ELSE rest

parseTrafficXmlAllOrNothing(t, rids) ==
  IF HasParserError(t) \/ \E i \in 1..Len(t.nodes) :
                            IsCameraNode(t.nodes[i]) /\ ~Usable(t.nodes[i])
  THEN << >> ELSE ParseNodes(t.nodes, rids)

parseTrafficXml(t, rids) ==
  IF HasParserError(t) THEN << >> ELSE ParseNodes(t.nodes, rids)


-----------------------------------------------------------------------------
(* TrafficService.fetchLiveCameras, one record per call                    *)
(*                                                                         *)
(* pc: "idle" (not called yet), "fetch" (awaiting fetchWithTimeout),       *)
(* "body" (awaiting response.json() or response.text()), "done" (resolved  *)
(* with 'result'), "rejected" (the promise rejected), "over" (fetchData    *)
(* has returned).  idx is the position of                                  *)
(* the for..of loop, elapsed the ms since the attempt on PROXIES[idx]      *)
(* started, timers the proxies whose setTimeout of fetchWithTimeout is     *)
(* still pending.                                                          *)
(* attempted, firstYield, yieldAt and onlyTransport are history: the       *)
(* proxies contacted so far, the first non-empty parse result and where it *)
(* came from, and whether every failure so far was a transport error.      *)

IdleCall ==
  [pc |-> "idle", isInitial |-> FALSE, idx |-> 0, elapsed |-> 0,
   timers |-> {}, result |-> << >>, attempted |-> << >>,
   firstYield |-> << >>, yieldAt |-> 0, onlyTransport |-> TRUE]

\* a loop that skips the first relay after a cycle that ended in the fallback
FirstProxySticky ==
  IF cameras # << >> /\ cameras[1].source = SOURCE_FALLBACK THEN 2 ELSE 1

\* the for..of loop starts at the first entry
FirstProxy == 1

\* the network operation a call is waiting for
OpOf(c) == [call |-> c, proxy |-> call[c].idx]

\* requests to all remaining relays at once
OpenOpsAll(c, k) == {[call |-> c, proxy |-> j] : j \in k..Len(PROXIES)}

\* fetch(url, {signal}): the operations an attempt on proxy k opens
OpenOps(c, k) == {[call |-> c, proxy |-> k]}

\* a deadline that rejects without cancelling the request
AbortNothing(c) == net

\* controller.abort(): the operation of the attempt is cancelled
Abort(c) == net \ {OpOf(c)}

\* a path of fetchWithTimeout that leaves without clearTimeout
ClearTimeoutSkipped(rec) == rec

\* clearTimeout(id), after the await and in the catch block
ClearTimeout(rec) == [rec EXCEPT !.timers = @ \ {rec.idx}]

\* the timer has run its callback and is no longer pending
TimerFired(rec) == [rec EXCEPT !.timers = @ \ {rec.idx}]

\* fetchWithTimeout up to its await: setTimeout, then fetch
Begin(rec, k) ==
  [rec EXCEPT !.pc = "fetch", !.idx = k, !.elapsed = 0,
              !.timers = @ \cup {k}, !.attempted = Append(@, k)]

\* return of fetchLiveCameras
Return(rec, value) ==
  [rec EXCEPT !.pc = "done", !.result = value, !.elapsed = 0]

\* the loop is over: return FALLBACK_CAMERAS
Exhausted(rec) == Return(rec, FALLBACK_CAMERAS)

\* a loop that stops one relay early
AdvanceShort(rec) ==
  IF rec.idx < Len(PROXIES) - 1 THEN Begin(rec, rec.idx + 1) ELSE Exhausted(rec)

\* 'continue', or the end of the loop body: next proxy, if there is one
Advance(rec) ==
  IF rec.idx < Len(PROXIES) THEN Begin(rec, rec.idx + 1) ELSE Exhausted(rec)

\* a catch block that rethrows
OnThrowEscapes(rec) == [rec EXCEPT !.pc = "rejected"]

\* the catch block of the loop body
OnThrow(rec) == Advance(rec)

\* a return of whatever was parsed (parsed.length >= 0)
OnParsedAny(rec, parsed) == Return(rec, parsed)

\* a return only of more than one record (parsed.length > 1)
OnParsedSeveral(rec, parsed) ==
  IF Len(parsed) > 1 THEN Return(rec, parsed) ELSE Advance(rec)

\* if (parsed.length > 0) return parsed
OnParsed(rec, parsed) ==
  IF Len(parsed) > 0 THEN Return(rec, parsed) ELSE Advance(rec)

\* the operations to open after a step of call c that leaves it in 'rec'
Opened(c, rec, before) ==
  IF rec.pc = "fetch" /\ rec.attempted # before.attempted
  THEN OpenOps(c, rec.idx) ELSE {}

\* response.json() / response.text() and the reading of data.contents:
\* "throw", "absent" (undefined) or "text"
Unwrap(type, body) ==
  IF type = "json"
  THEN CASE body.json \in {"invalid", "null"} -> [kind |-> "throw", text |-> EmptyText]
         [] body.json = "no contents"        -> [kind |-> "absent", text |-> EmptyText]
         [] body.json = "number contents"    -> [kind |-> "number", text |-> EmptyText]
         [] OTHER                            -> [kind |-> "text", text |-> body.contents]
  ELSE [kind |-> "text", text |-> body]

\* !xmlText || xmlText.trim().startsWith('<!DOCTYPE html')
\*          || xmlText.trim().startsWith('<html')
Rejected(u) ==
  \/ u.kind = "absent"
  \/ u.kind = "text" /\ u.text = EmptyText
  \/ u.kind = "text" /\ startsWith(trim(u.text), "<!DOCTYPE html")
  \/ u.kind = "text" /\ startsWith(trim(u.text), "<html")

\* the loop body from the unwrapping of the body on
Digest(rec, type, body, rids) ==
  LET u == Unwrap(type, body) IN
    IF u.kind = "throw" THEN OnThrow(rec)
    ELSE IF Rejected(u) THEN Advance(rec)
    ELSE IF u.kind = "number" THEN OnThrow(rec)  \* xmlText.trim is not a function
    ELSE OnParsed(rec, parseTrafficXml(u.text, rids))

\* the values Math.random can yield while the body is parsed, one per node
Draws(type, body) ==
  [1..Len(Unwrap(type, body).text.nodes) -> Randoms]

\* what the attempt yields: the parse result, << >> if it does not get there
YieldOf(type, body, rids) ==
  LET u == Unwrap(type, body) IN
    IF u.kind # "text" \/ Rejected(u) THEN << >>
    ELSE parseTrafficXml(u.text, rids)

-----------------------------------------------------------------------------
(* App.fetchData and the refresh interval effect *)

Running(c) == call[c].pc \in {"fetch", "body"}

\* a promise has settled and its continuation runs before any other task
Settling == \E c \in Calls : call[c].pc \in {"done", "rejected"}

\* the network can deliver now
Delivering == clock = 0

\* a deadline timer is due
Due(c) == call[c].idx \in call[c].timers /\ call[c].elapsed >= timeout

\* fetchData(isInitial) up to the first await
StartCall(rec, initial) == Begin([rec EXCEPT !.isInitial = initial], FirstProxy)

FreeCalls == {c \in Calls : call[c].pc = "idle"}

Least(S) == CHOOSE x \in S : \A y \in S : x <= y

Min(a, b) == IF a <= b THEN a ELSE b

Event(kind, c) == [kind |-> kind, call |-> c]

\* the state of a fetchData call that has returned
OverCall == [IdleCall EXCEPT !.pc = "over"]

\* no function has been called directly
NoProbe == [fn |-> "none"]

\* LiveCommand after its first render: useState(false), useState('idle'),
\* useRef(null).  pc[s] is where session s is: "free" (not started, or
\* closed), "media" (startSession awaits getUserMedia), "connecting" (it
\* awaits the session promise), "opened" (onopen has run, the continuation
\* of the await has not), "active" (the session is connected), "closing"
\* (close() was called or the connection broke, onclose has not run).
\* last is the function that ran most recently (history).
IdleVoice ==
  [isActive |-> FALSE, status |-> "idle", sessionRef |-> 0,
   pc |-> [s \in Sessions |-> "free"], last |-> "none"]

Init ==
  /\ app = "new"
  /\ cameras = << >>
  /\ loading = TRUE
  /\ countdown = REFRESH_INTERVAL_SECONDS
  /\ call = [c \in Calls |-> IdleCall]
  /\ net = {}
  /\ clock = 0
  /\ lastEvent = Event("none", 0)
  /\ probe = NoProbe
  /\ voice = IdleVoice

\* the effect of the App: fetchData(true), then setInterval
Mount ==
  /\ app = "new"
  /\ app' = "mounted"
  /\ LET c == Least(FreeCalls)
         rec == StartCall(call[c], TRUE)
     IN /\ call' = [call EXCEPT ![c] = rec]
        /\ net' = net \cup Opened(c, rec, call[c])
  /\ lastEvent' = Event("mount", 0)
  /\ UNCHANGED <<cameras, loading, countdown, clock, probe, voice>>

\* the callback of setInterval: count down, or fetchData(false) and restart
IntervalCallback(aged) ==
  IF countdown <= 1
  THEN /\ FreeCalls # {}
       /\ LET c == Least(FreeCalls)
              rec == StartCall(aged[c], FALSE)
          IN /\ call' = [aged EXCEPT ![c] = rec]
             /\ net' = net \cup Opened(c, rec, call[c])
       /\ countdown' = REFRESH_INTERVAL_SECONDS
  ELSE /\ call' = aged
       /\ countdown' = countdown - 1
       /\ UNCHANGED net

\* IntervalMs pass; while the App is mounted the interval callback runs
Tick ==
  /\ app # "new"
  /\ ~Settling
  /\ \A c \in Calls : ~Due(c)
  /\ LET aged == [c \in Calls |->
                    IF Running(c)
                    THEN [call[c] EXCEPT
                            !.elapsed = Min(@ + IntervalMs, timeout + IntervalMs)]
                    ELSE call[c]]
     IN IF app = "mounted"
        THEN IntervalCallback(aged)
        ELSE call' = aged /\ UNCHANGED <<net, countdown>>
  /\ clock' = (clock + 1) % Grain
  /\ lastEvent' = Event("tick", 0)
  /\ UNCHANGED <<app, cameras, loading, probe, voice>>

\* the cleanup of the effect: clearInterval; the state of the component is
\* discarded, the calls in progress go on
Unmount ==
  /\ app = "mounted"
  /\ ~Settling
  /\ app' = "unmounted"
  /\ cameras' = << >>
  /\ loading' = TRUE
  /\ countdown' = REFRESH_INTERVAL_SECONDS
  /\ lastEvent' = Event("unmount", 0)
  /\ UNCHANGED <<call, net, clock, probe, voice>>

\* a step of call c that ends its current network operation
Step(c, rec, rest, kind) ==
  /\ call' = [call EXCEPT ![c] = rec]
  /\ net' = rest \cup Opened(c, rec, call[c])
  /\ lastEvent' = Event(kind, c)
  /\ UNCHANGED <<app, cameras, loading, countdown, clock, probe, voice>>

\* fetch rejects (connection-level failure): clearTimeout, rethrow, catch
FetchRejects(c) ==
  /\ ~Settling
  /\ Delivering
  /\ call[c].pc = "fetch"
  /\ OpOf(c) \in net
  /\ Step(c, OnThrow(ClearTimeout(call[c])), net \ {OpOf(c)},
          "transport error")

\* the response headers arrive: clearTimeout, then the status check
ResponseArrives(c, ok) ==
  /\ ~Settling
  /\ Delivering
  /\ call[c].pc = "fetch"
  /\ OpOf(c) \in net
  /\ LET rec == [ClearTimeout(call[c]) EXCEPT !.onlyTransport = FALSE] IN
       IF ok
       THEN /\ call' = [call EXCEPT ![c] = [rec EXCEPT !.pc = "body"]]
            /\ lastEvent' = Event("headers", c)
            /\ UNCHANGED <<app, cameras, loading, countdown, net, clock, probe, voice>>
       ELSE Step(c, Advance(rec), net \ {OpOf(c)}, "status")

\* the deadline fires: controller.abort(), fetch rejects with AbortError
DeadlineFires(c) ==
  /\ ~Settling
  /\ call[c].pc = "fetch"
  /\ Due(c)
  /\ Step(c, OnThrow([ClearTimeout(TimerFired(call[c]))
                         EXCEPT !.onlyTransport = FALSE]),
          Abort(c), "timeout")

\* the bodies the relay of the current attempt may send
BodiesFor(c) ==
  IF call[c].pc = "body" THEN Bodies(PROXIES[call[c].idx].type) ELSE {}

\* the body has been read
BodyArrives(c, body, rids) ==
  /\ ~Settling
  /\ Delivering
  /\ call[c].pc = "body"
  /\ OpOf(c) \in net
  /\ LET type == PROXIES[call[c].idx].type
         yield == YieldOf(type, body, rids)
         rec == IF call[c].firstYield = << >> /\ yield # << >>
                THEN [call[c] EXCEPT !.firstYield = yield, !.yieldAt = call[c].idx]
                ELSE call[c]
     IN Step(c, Digest(rec, type, body, rids), net \ {OpOf(c)}, "body")

\* the reading of the body fails (connection lost)
BodyFails(c) ==
  /\ ~Settling
  /\ Delivering
  /\ call[c].pc = "body"
  /\ OpOf(c) \in net
  /\ Step(c, OnThrow(call[c]), net \ {OpOf(c)}, "body error")

\* fetchData after 'await trafficService.fetchLiveCameras()'; the setters of
\* an unmounted component do nothing
SetCamerasKeeping(liveCameras) == cameras \o liveCameras \o enforcementCameras

\* setCameras([...liveCameras, ...enforcementCameras])
SetCameras(liveCameras) == liveCameras \o enforcementCameras

FetchDataResume(c) ==
  /\ call[c].pc \in {"done", "rejected"}
  /\ IF app # "mounted"
     THEN UNCHANGED <<cameras, countdown, loading>>
     ELSE /\ IF call[c].pc = "done"
             THEN /\ cameras' = SetCameras(call[c].result)
                  /\ countdown' = REFRESH_INTERVAL_SECONDS
             ELSE /\ cameras' = enforcementCameras
                  /\ UNCHANGED countdown
          /\ loading' = IF call[c].isInitial THEN FALSE ELSE loading
  /\ call' = [call EXCEPT ![c] = OverCall]
  /\ lastEvent' = Event("resume", c)
  /\ UNCHANGED <<app, net, clock, probe, voice>>

-----------------------------------------------------------------------------
(* The service worker (sw.js).  A URL is [hostname, pathname]: the labels  *)
(* of the host name and the segments of the path, as 'new URL' splits the  *)
(* address; the query string belongs to neither.                           *)

\* seq holds the members of part next to each other, in order
Within(seq, part) ==
  \E i \in 0..(Len(seq) - Len(part)) :
    \A j \in 1..Len(part) : seq[i + j] = part[j]

\* XML_ENDPOINT
XML_ENDPOINT ==
  [hostname |-> <<"trafficnz", "info">>,
   pathname |-> <<"service", "traffic", "rest", "4", "cameras", "all">>]

\* new URL(targetUrl) for the targetUrl fetchLiveCameras builds from
\* PROXIES[k]: the endpoint follows the '?' of the relay address
TargetUrl(k) ==
  CASE PROXIES[k].url = "https://api.allorigins.win/get?url=" ->
         [hostname |-> <<"api", "allorigins", "win">>, pathname |-> <<"get">>]
    [] PROXIES[k].url = "https://corsproxy.io/?" ->
         [hostname |-> <<"corsproxy", "io">>, pathname |-> << >>]
    [] PROXIES[k].url = "https://api.codetabs.com/v1/proxy?url=" ->
         [hostname |-> <<"api", "codetabs", "com">>, pathname |-> <<"v1", "proxy">>]

\* the requests for the feed document: direct, and through each relay
FeedRequests ==
  { [url |-> XML_ENDPOINT, destination |-> "", method |-> "GET"] }
    \cup { [url |-> TargetUrl(k), destination |-> "", method |-> "GET"] :
             k \in DOMAIN PROXIES }

\* the requests the pages of the App make
Requests ==
  FeedRequests
    \cup { [url |-> [hostname |-> <<"www", "trafficnz", "info">>,
                     pathname |-> <<"camera", "images", "20.jpg">>],
            destination |-> "image", method |-> "GET"],
           [url |-> [hostname |-> <<"localhost">>, pathname |-> <<"index.html">>],
            destination |-> "document", method |-> "GET"],
           [url |-> [hostname |-> <<"localhost">>, pathname |-> <<"api">>],
            destination |-> "", method |-> "POST"] }

\* what fetch(event.request) does: resolves with a status, or rejects
Networks == {"200", "500", "fails"}

\* event.request.destination === 'image'
\*   && url.hostname.includes('trafficnz.info')
NetworkFirst(request) ==
  /\ request.destination = "image"
  /\ Within(request.url.hostname, <<"trafficnz", "info">>)

\* url.pathname.includes('/service/traffic/rest/')
\*   || url.hostname.includes('corsproxy') || url.hostname.includes('allorigins')
NetworkOnly(request) ==
  \/ Within(SubSeq(request.url.pathname, 1, Len(request.url.pathname) - 1),
            <<"service", "traffic", "rest">>)
  \/ Within(request.url.hostname, <<"corsproxy">>)
  \/ Within(request.url.hostname, <<"allorigins">>)

\* the fetch listener: what the request is answered with ("network",
\* "cache", "error" for a rejected fetch passed on, "none" for undefined)
\* and whether the cache holds a response for the request afterwards
OnFetch(request, cached, network) ==
  IF NetworkFirst(request)
  THEN IF network = "fails"
       THEN [answer |-> IF cached THEN "cache" ELSE "none", cached |-> cached]
       ELSE [answer |-> "network", cached |-> TRUE]
  ELSE IF NetworkOnly(request)
  THEN [answer |-> IF network = "fails" THEN "error" ELSE "network",
        cached |-> cached]
  ELSE [answer |-> IF cached THEN "cache"
                   ELSE IF network = "fails" THEN "none" ELSE "network",
        cached |-> cached \/ (network = "200" /\ request.method = "GET")]

-----------------------------------------------------------------------------
(* LiveCommand (components/LiveCommand.tsx) *)

\* stopSession
stopSession(v) ==
  [v EXCEPT !.pc = IF v.sessionRef # 0
                   THEN [@ EXCEPT ![v.sessionRef] = "closing"] ELSE @,
            !.sessionRef = 0,
            !.isActive = FALSE,
            !.status = "idle",
            !.last = "stopSession"]

\* the continuation of 'await sessionPromise' runs right after onopen,
\* before any other event is handled
Resolving == \E s \in Sessions : voice.pc[s] = "opened"

FreeSessions == {s \in Sessions : voice.pc[s] = "free"}

\* onClick of the button while isActive is false: startSession up to its
\* first await
ClickStart ==
  /\ ~Resolving
  /\ ~voice.isActive
  /\ FreeSessions # {}
  /\ voice' = [voice EXCEPT !.status = "connecting",
                            !.pc[Least(FreeSessions)] = "media",
                            !.last = "startSession"]
  /\ UNCHANGED <<appVars, probe>>

\* onClick of the button while isActive is true: stopSession
ClickStop ==
  /\ ~Resolving
  /\ voice.isActive
  /\ voice' = stopSession(voice)
  /\ UNCHANGED <<appVars, probe>>

\* getUserMedia resolves: ai.live.connect is called
MediaGranted(s) ==
  /\ ~Resolving
  /\ voice.pc[s] = "media"
  /\ voice' = [voice EXCEPT !.pc[s] = "connecting", !.last = "connect"]
  /\ UNCHANGED <<appVars, probe>>

\* getUserMedia or the session promise rejects: the catch of startSession
StartFails(s) ==
  /\ ~Resolving
  /\ voice.pc[s] \in {"media", "connecting"}
  /\ voice' = [voice EXCEPT !.pc[s] = "free", !.status = "idle",
                            !.last = "catch"]
  /\ UNCHANGED <<appVars, probe>>

\* the onopen callback of session s
OnOpen(s) ==
  /\ ~Resolving
  /\ voice.pc[s] = "connecting"
  /\ voice' = [voice EXCEPT !.pc[s] = "opened", !.status = "active",
                            !.isActive = TRUE, !.last = "onopen"]
  /\ UNCHANGED <<appVars, probe>>

\* sessionRef.current = await sessionPromise
SessionResolves(s) ==
  /\ voice.pc[s] = "opened"
  /\ voice' = [voice EXCEPT !.pc[s] = "active", !.sessionRef = s,
                            !.last = "resolved"]
  /\ UNCHANGED <<appVars, probe>>

\* the onerror callback of session s, whose connection breaks
OnError(s) ==
  /\ ~Resolving
  /\ voice.pc[s] = "active"
  /\ voice' = [stopSession(voice) EXCEPT !.pc[s] = "closing"]
  /\ UNCHANGED <<appVars, probe>>

\* the onclose callback of session s, closed by close(), by an error or by
\* the server
OnClose(s) ==
  /\ ~Resolving
  /\ voice.pc[s] \in {"active", "closing"}
  /\ voice' = [stopSession(voice) EXCEPT !.pc[s] = "free"]
  /\ UNCHANGED <<appVars, probe>>

\* a cycle whose attempt on endpoint k has got a response with an ok status
AtBody(k) == [ClearTimeout(Begin(IdleCall, k)) EXCEPT !.pc = "body"]

\* the loop body of fetchLiveCameras on endpoint k from the body on, called
\* directly, once or twice in a row: the parse result and the state the
\* cycle is left in
ProbeSync(k, body, rids) ==
  LET type == PROXIES[k].type IN
    /\ probe.fn = "none" \/ (probe.fn = "fetchLiveCameras" /\ probe.round = 1)
    /\ probe' = [fn |-> "fetchLiveCameras",
                 args |-> [proxy |-> k, body |-> body, rids |-> rids],
                 value |-> [parsed |-> YieldOf(type, body, rids),
                            call |-> Digest(AtBody(k), type, body, rids)],
                 round |-> IF probe.fn = "none" THEN 1 ELSE 2,
                 before |-> IF probe.fn = "none"
                            THEN << >> ELSE probe.value.call.result]
    /\ UNCHANGED <<appVars, voice>>

\* what the same document yields through a json relay (in 'contents') and
\* through a text relay
ProbeEnvelope(t, rids1, rids2) ==
  /\ probe.fn = "none"
  /\ probe' = [fn |-> "envelope",
               args |-> [text |-> t],
               value |-> [json |-> YieldOf("json",
                                           [json |-> "object", contents |-> t], rids1),
                          text |-> YieldOf("text", t, rids2)]]
  /\ UNCHANGED <<appVars, voice>>

\* node n with its coordinates as flat fields
Flat(n) == [n EXCEPT !.latN = "", !.lngN = "", !.latF = n.latN, !.lngF = n.lngN]

\* parseTrafficXml on a record with nested coordinates and on the same record
\* with flat ones
ProbeSchemas(n, rnd1, rnd2) ==
  /\ probe.fn = "none"
  /\ probe' = [fn |-> "parseTrafficXml",
               args |-> [node |-> n],
               value |-> [nested |-> parseTrafficXml(Text(FALSE, XmlHead, <<n>>), <<rnd1>>),
                          flat |-> parseTrafficXml(Text(FALSE, XmlHead, <<Flat(n)>>), <<rnd2>>)]]
  /\ UNCHANGED <<appVars, voice>>

\* normalizeImageUrl called directly
ProbeNormalize(url) ==
  /\ probe.fn = "none"
  /\ probe' = [fn |-> "normalizeImageUrl", args |-> url,
               value |-> normalizeImageUrl(url),
               twice |-> normalizeImageUrl(normalizeImageUrl(url))]
  /\ UNCHANGED <<appVars, voice>>

\* determineIntelligence on a report, and on the report with one more word
ProbeIntelligence(description, status, word) ==
  /\ probe.fn = "none"
  /\ probe' = [fn |-> "determineIntelligence",
               args |-> [description |-> description, status |-> status,
                         word |-> word],
               value |-> [without |-> determineIntelligence(description, status),
                          with |-> determineIntelligence(Append(description, word),
                                                         status)]]
  /\ UNCHANGED <<appVars, voice>>

\* the fetch listener of the service worker on a request, and once more on
\* the same request with the cache as the first event left it
ProbeFetchEvent(request, network) ==
  /\ \/ probe.fn = "none"
     \/ probe.fn = "fetch event" /\ probe.round = 1 /\ probe.args.request = request
  /\ probe' = [fn |-> "fetch event",
               args |-> [request |-> request, network |-> network],
               value |-> OnFetch(request,
                                 IF probe.fn = "none" THEN FALSE ELSE probe.value.cached,
                                 network),
               round |-> IF probe.fn = "none" THEN 1 ELSE 2]
  /\ UNCHANGED <<appVars, voice>>

\* records with nested coordinates
ProbeNodes ==
  { Node(tag, "4", lat, lng, "", "") :
      tag \in {"trafficCamera", "camera"},
      lat \in {"-36.8", "0", "abc", ""}, lng \in {"174.7", "Infinity", ""} }

ProbeNext ==
  \/ \E k \in DOMAIN PROXIES :
       \E body \in ProbeBodies(PROXIES[k].type) :
         \E rids \in Draws(PROXIES[k].type, body) : ProbeSync(k, body, rids)
  \/ \E t \in ProbeTexts :
       \E rids1, rids2 \in [1..Len(t.nodes) -> Randoms] :
         ProbeEnvelope(t, rids1, rids2)
  \/ \E n \in ProbeNodes, rnd1, rnd2 \in Randoms : ProbeSchemas(n, rnd1, rnd2)
  \/ \E url \in ProbeUrls : ProbeNormalize(url)
  \/ \E request \in Requests, network \in Networks :
       ProbeFetchEvent(request, network)
  \/ \E description \in ProbeReports, status \in ProbeStatuses,
          word \in ProbeWords :
       ProbeIntelligence(description, status, word)

\* one function of TrafficService called directly
ProbeSpec == Init /\ [][ProbeNext]_vars

Next ==
  \/ Mount
  \/ Tick
  \/ Unmount
  \/ \E c \in Calls : FetchRejects(c)
  \/ \E c \in Calls, ok \in BOOLEAN : ResponseArrives(c, ok)
  \/ \E c \in Calls : DeadlineFires(c)
  \/ \E c \in Calls :
       \E body \in BodiesFor(c) :
         \E rids \in Draws(PROXIES[call[c].idx].type, body) :
           BodyArrives(c, body, rids)
  \/ \E c \in Calls : BodyFails(c)
  \/ \E c \in Calls : FetchDataResume(c)

Spec == Init /\ [][Next]_vars

\* Time passes, timers fire and continuations run; the App is closed at some
\* point.  Nothing is assumed of the network.
LiveSpec ==
  /\ Spec
  /\ WF_vars(Mount)
  /\ WF_vars(Tick)
  /\ WF_vars(Unmount)
  /\ \A c \in Calls : WF_vars(DeadlineFires(c))
  /\ \A c \in Calls : WF_vars(FetchDataResume(c))

VoiceNext ==
  \/ ClickStart
  \/ ClickStop
  \/ \E s \in Sessions : MediaGranted(s)
  \/ \E s \in Sessions : StartFails(s)
  \/ \E s \in Sessions : OnOpen(s)
  \/ \E s \in Sessions : SessionResolves(s)
  \/ \E s \in Sessions : OnError(s)
  \/ \E s \in Sessions : OnClose(s)

\* the button of LiveCommand and the callbacks of its sessions
VoiceSpec == Init /\ [][VoiceNext]_vars

-----------------------------------------------------------------------------
(* Properties *)

AllProxies == [j \in 1..Len(PROXIES) |-> j]

OpsOf(c) == {o \in net : o.call = c}

InFlight == {c \in Calls : call[c].pc \in {"fetch", "body", "done", "rejected"}}

\* C1: whatever the endpoints did, a fetchLiveCameras that has resolved has
\* resolved with a list of at least one record.
C1_NonEmptyResult ==
  \A c \in Calls : call[c].pc = "done" => Len(call[c].result) >= 1

\* every endpoint sent a body and none of them was of use: the fallback
C1_Witness ==
  \E c \in Calls :
    /\ call[c].pc = "done"
    /\ lastEvent = Event("body", c)
    /\ call[c].attempted = AllProxies
    /\ Len(call[c].result) >= 1

\* C2: once an endpoint k has yielded a non-empty record list, the cycle has
\* resolved with exactly that list, k was the last endpoint contacted and the
\* cycle has no network operation open.
C2_ShortCircuit ==
  \A c \in Calls :
    call[c].firstYield # << >> =>
      /\ call[c].pc = "done"
      /\ call[c].result = call[c].firstYield
      /\ call[c].attempted = [j \in 1..call[c].yieldAt |-> j]
      /\ OpsOf(c) = {}

\* the second endpoint is the first to yield records, the third is left alone
C2_Witness ==
  \E c \in Calls :
    /\ call[c].pc = "done"
    /\ call[c].yieldAt = 2
    /\ call[c].result = call[c].firstYield
    /\ Len(call[c].result) = 1

\* C3: a cycle resolves with FALLBACK_CAMERAS if and only if it contacted
\* every endpoint of PROXIES and none of them yielded a record.
C3_Exhaustion ==
  \A c \in Calls :
    call[c].pc = "done" =>
      ( call[c].result = FALLBACK_CAMERAS
          <=> (call[c].attempted = AllProxies /\ call[c].firstYield = << >>) )

\* every endpoint failed with a transport error
C3_Witness ==
  \E c \in Calls :
    /\ call[c].pc = "done"
    /\ call[c].onlyTransport
    /\ lastEvent = Event("transport error", c)
    /\ call[c].attempted = AllProxies
    /\ call[c].result = FALLBACK_CAMERAS

\* a step in which an attempt of call c ends without a record
SoftFailure(c) ==
  /\ Running(c)
  /\ lastEvent'.call = c
  /\ lastEvent'.kind \in {"transport error", "timeout", "status", "body error", "body"}
  /\ call'[c].firstYield = << >>

\* C4: fetchLiveCameras never rejects, and a failed attempt does nothing but
\* move the cycle to the next endpoint, or to the fallback after the last one.
C4_SoftFailures ==
  /\ [](\A c \in Calls : call[c].pc # "rejected")
  /\ [][\A c \in Calls :
          SoftFailure(c) =>
            IF call[c].idx < Len(PROXIES)
            THEN /\ call'[c].pc = "fetch"
                 /\ call'[c].idx = call[c].idx + 1
                 /\ call'[c].attempted = Append(call[c].attempted, call[c].idx + 1)
            ELSE /\ call'[c].pc = "done"
                 /\ call'[c].result = FALLBACK_CAMERAS]_vars

\* the body of the json relay was of no use and the text relay is tried
C4_Witness ==
  \E c \in Calls :
    /\ lastEvent = Event("body", c)
    /\ call[c].pc = "fetch"
    /\ call[c].idx = 2
    /\ call[c].firstYield = << >>

\* C5: at most one sync cycle is in progress.
C5_SingleFlight == Cardinality(InFlight) <= 1

\* C6: an endpoint attempt in progress is no older than the timeout.
C6_AttemptBounded ==
  \A c \in Calls : Running(c) => call[c].elapsed <= timeout

\* C7: every sync cycle that has started resolves.
C7_Terminates ==
  \A c \in Calls : Running(c) ~> (call[c].pc = "done")

\* C8: in every cycle, whatever came before it, the endpoints contacted so far
\* are the first entries of PROXIES in registry order, each once.
C8_RegistryOrder ==
  \A c \in Calls :
    call[c].attempted = [j \in 1..Len(call[c].attempted) |-> j]

\* a cycle that follows a cycle with a live result starts from the top again
C8_Witness ==
  /\ call[1].pc = "over"
  /\ cameras # << >>
  /\ cameras[1].source = SOURCE_LIVE
  /\ call[2].attempted = <<1, 2>>

\* C9: a cycle has at most one network operation open.
C9_Sequential ==
  \A c \in Calls : Cardinality(OpsOf(c)) <= 1

\* the attempt on the third endpoint is the only one in flight
C9_Witness ==
  \E c \in Calls :
    /\ call[c].pc = "fetch"
    /\ call[c].idx = 3
    /\ OpsOf(c) = {[call |-> c, proxy |-> 3]}

\* C10: when a deadline fires the network operation of the attempt is closed,
\* and every open network operation belongs to the current attempt of a
\* cycle in progress, so that none can deliver into a later attempt or cycle.
C10_Cancelled ==
  /\ [](\A o \in net : Running(o.call) /\ o.proxy = call[o.call].idx)
  /\ [][\A c \in Calls :
          lastEvent' = Event("timeout", c) => OpOf(c) \notin net']_vars

\* a deadline has just fired on the first endpoint and the second is tried
C10_Witness ==
  \E c \in Calls :
    /\ lastEvent = Event("timeout", c)
    /\ call[c].idx = 2
    /\ OpsOf(c) = {[call |-> c, proxy |-> 2]}

\* C11: a deadline timer is pending only while the fetchWithTimeout that set
\* it is awaiting its fetch: every exit path (response, transport failure,
\* timeout) leaves no timer behind, so that no timer is pending when no
\* endpoint attempt is in flight.
C11_TimersReleased ==
  \A c \in Calls :
    call[c].timers \subseteq (IF call[c].pc = "fetch" THEN {call[c].idx} ELSE {})

\* the third attempt has left fetchWithTimeout with a response, after two
\* attempts that left it otherwise, and no timer is pending
C11_Witness ==
  \E c \in Calls :
    /\ lastEvent = Event("headers", c)
    /\ call[c].pc = "body"
    /\ call[c].idx = 3
    /\ call[c].timers = {}

-----------------------------------------------------------------------------
(* Properties of the functions of TrafficService called directly *)

\* the result of the sync cycle a direct call has ended, << >> otherwise
SyncResult ==
  IF probe.fn = "fetchLiveCameras" /\ probe.value.call.pc = "done"
  THEN probe.value.call.result ELSE << >>

Finite(n) == ~n.nan /\ ~n.inf

\* C12: every record of a sync result has a latitude and a longitude that
\* are finite numbers other than zero.
C12_ValidCoordinates ==
  \A i \in DOMAIN SyncResult :
    /\ Finite(SyncResult[i].latitude) /\ SyncResult[i].latitude.v # 0
    /\ Finite(SyncResult[i].longitude) /\ SyncResult[i].longitude.v # 0

\* C13: the ids of the records of a sync result are non-empty and pairwise
\* distinct.
C13_UniqueIds ==
  \A i, j \in DOMAIN SyncResult :
    /\ SyncResult[i].id # ""
    /\ i # j => SyncResult[i].id # SyncResult[j].id

\* C14: every record of a sync result, live or fallback, carries a severity,
\* a trend and a confidence, within their ranges.
C14_Intelligence ==
  \A i \in DOMAIN SyncResult :
    /\ {"severity", "trend", "confidence"} \subseteq DOMAIN SyncResult[i]
    /\ SyncResult[i].severity \in {"low", "medium", "high", "critical"}
    /\ SyncResult[i].trend \in {"improving", "stable", "escalating"}
    /\ SyncResult[i].confidence \in 0..100

\* a live result with a critical record of the highest confidence drawn
C14_Witness ==
  \E i \in DOMAIN SyncResult :
    /\ SyncResult[i].source = SOURCE_LIVE
    /\ SyncResult[i].severity = "critical"
    /\ SyncResult[i].trend = "escalating"
    /\ SyncResult[i].confidence = 99

\* the four-rule table of image canonicalization
\* an address with the scheme http or https
IsAbsolute(url) ==
  Len(url) >= 4 /\ url[1] \in {"http:", "https:"} /\ url[2] = "/" /\ url[3] = "/"

Canonical(url) ==
  IF IsAbsolute(url) THEN url
  ELSE IF Head(url) = "/" THEN BASE_TRAFFIC_URL \o url
  ELSE BASE_TRAFFIC_URL \o <<"/", "camera", "/", "images", "/">> \o url

\* C15: normalizeImageUrl maps every non-empty reference as the four-rule
\* table says.
C15_CanonicalTable ==
  probe.fn = "normalizeImageUrl" /\ probe.args # << >> =>
    probe.value = Canonical(probe.args)

\* C16: a record with nested coordinates and the same record with flat
\* coordinates are accepted alike and get the same latitude and longitude.
C16_SchemaTolerance ==
  probe.fn = "parseTrafficXml" =>
    /\ Len(probe.value.nested) = Len(probe.value.flat)
    /\ \A i \in DOMAIN probe.value.nested :
         /\ probe.value.nested[i].latitude = probe.value.flat[i].latitude
         /\ probe.value.nested[i].longitude = probe.value.flat[i].longitude

\* the scenario of the specification: -36.8, 174.7 in both schemas
C16_Witness ==
  /\ probe.fn = "parseTrafficXml"
  /\ probe.args.node.latF = "" /\ probe.args.node.lngF = ""
  /\ Len(probe.value.nested) = 1
  /\ Len(probe.value.flat) = 1
  /\ probe.value.flat[1].latitude = Num(-36800)
  /\ probe.value.flat[1].longitude = Num(174700)

\* C17: a document yields the same parse result through a json relay and
\* through a text relay.
C17_EnvelopeEquivalence ==
  probe.fn = "envelope" => probe.value.json = probe.value.text

\* the text a direct call of the loop body hands on, and whether it is a
\* well-formed document
ProbedText ==
  Unwrap(PROXIES[probe.args.proxy].type, probe.args.body)

ProbedMalformed ==
  /\ probe.fn = "fetchLiveCameras"
  /\ ProbedText.kind = "text"
  /\ ProbedText.text.head # XmlHead

\* the cycle goes on with the endpoint after k, or ends in the fallback
Continues(rec, k) ==
  IF k < Len(PROXIES)
  THEN rec.pc = "fetch" /\ rec.idx = k + 1
  ELSE rec.pc = "done" /\ rec.result = FALLBACK_CAMERAS

Live(list) == {list[i] : i \in {j \in DOMAIN list : list[j].source = SOURCE_LIVE}}

Rank(severity) ==
  CASE severity = "low" -> 0
    [] severity = "medium" -> 1
    [] severity = "high" -> 2
    [] severity = "critical" -> 3

\* C20: a report with 'heavy', 'congestion' or 'blocked' added is no less
\* severe than the report without it, and a report with 'improving' or
\* 'clearing' in it has the trend improving.
C20_Escalation ==
  probe.fn = "determineIntelligence" =>
    /\ toLowerCase(<<probe.args.word>>)[1] \in {"heavy", "congestion", "blocked"}
         => Rank(probe.value.with.severity) >= Rank(probe.value.without.severity)
    /\ toLowerCase(<<probe.args.word>>)[1] \in {"improving", "clearing"}
         => probe.value.with.trend = "improving"


\* the text of a coordinate element resolves to a finite number
Resolved(text) == text # "" /\ Finite(parseFloat(text))

\* the pair of coordinate texts resolves to the pair (0,0)
ZeroPair(lat, lng) == parseFloat(lat).v = 0 /\ parseFloat(lng).v = 0

\* C21: a record element is dropped exactly when its latitude or its
\* longitude does not resolve to a finite number or the pair is (0,0);
\* every other record element yields exactly one record.
C21_DropsExactly ==
  probe.fn = "parseTrafficXml" =>
    LET n == probe.args.node
        kept == Resolved(n.latN) /\ Resolved(n.lngN) /\ ~ZeroPair(n.latN, n.lngN)
    IN Len(probe.value.nested) = IF kept THEN 1 ELSE 0


\* the positions of the record elements with usable coordinates
UsableAt(nodes) ==
  {i \in 1..Len(nodes) : IsCameraNode(nodes[i]) /\ Usable(nodes[i])}

\* the j-th smallest member of a set of positions
Nth(places, j) ==
  CHOOSE i \in places : Cardinality({k \in places : k < i}) = j - 1

\* record r carries the fields of element n, or the default of each field
\* that the element lacks
FieldsOrDefaults(r, n, rnd) ==
  /\ r.id = (IF n.id = "" THEN rnd.id ELSE n.id)
  /\ r.name = (IF n.name = "" THEN "Surveillance Node" ELSE n.name)
  /\ r.description = (IF n.description = << >>
                      THEN <<"Live", "matrix", "uplink">> ELSE n.description)
  /\ r.region = (IF n.region = "" THEN "NZ Sector" ELSE n.region)
  /\ r.direction = (IF n.direction = "" THEN "N/A" ELSE n.direction)
  /\ r.status = (IF n.status = << >> THEN <<"Operational">> ELSE n.status)

ProbedWellFormed ==
  /\ probe.fn = "fetchLiveCameras"
  /\ ProbedText.kind = "text"
  /\ ProbedText.text.head = XmlHead

Exhaustion ==
  /\ probe.fn = "fetchLiveCameras"
  /\ probe.args.proxy = Len(PROXIES)
  /\ probe.value.parsed = << >>
  /\ probe.value.call.pc = "done"

\* C23: the catalog returned on exhaustion spans at least two regions, and
\* its entries have pairwise distinct ids, finite non-zero coordinates, the
\* fallback source and the status "Operational".
C23_FallbackCatalog ==
  Exhaustion =>
    LET catalog == probe.value.call.result IN
      /\ Cardinality({catalog[i].region : i \in 1..Len(catalog)}) >= 2
      /\ \A i, j \in 1..Len(catalog) : catalog[i].id = catalog[j].id => i = j
      /\ \A i \in 1..Len(catalog) :
           /\ Finite(catalog[i].latitude) /\ catalog[i].latitude.v # 0
           /\ Finite(catalog[i].longitude) /\ catalog[i].longitude.v # 0
           /\ catalog[i].source = SOURCE_FALLBACK
           /\ catalog[i].status = <<"Operational">>


\* hour and minute of the times at which the cycles run
CycleMinutes == {toLocaleTimeString(rnd.now, FALSE) : rnd \in Randoms}

\* C24: every record a sync cycle returns, live or fallback, carries as
\* lastUpdate the time of that cycle, never the time of application start.
C24_CycleTime ==
  \A i \in 1..Len(SyncResult) :
    <<SyncResult[i].lastUpdate[1], SyncResult[i].lastUpdate[2]>> \in CycleMinutes


\* C25: when a sync cycle completes, the camera list becomes that cycle's
\* result followed by the enforcement cameras, whatever it held before.
C25_ReplacedWholesale ==
  [][\A c \in Calls :
       (app = "mounted" /\ call[c].pc = "done" /\ lastEvent' = Event("resume", c))
         => cameras' = call[c].result \o enforcementCameras]_vars

\* the second of two cycles in progress has completed after the first and
\* its live records have replaced the list
C25_Witness ==
  /\ app = "mounted"
  /\ lastEvent = Event("resume", 2)
  /\ call[1].pc = "over"
  /\ Len(cameras) > Len(enforcementCameras)
  /\ cameras[1].source = SOURCE_LIVE


\* C26: while the App is mounted the cycles start on a fixed interval of
\* REFRESH_INTERVAL_SECONDS: the countdown to the next cycle is restarted by
\* the start of a cycle only, so that the time from one start to the next
\* does not depend on how long a cycle takes.
C26_FixedInterval ==
  [][(app = "mounted" /\ app' = "mounted" /\ countdown' > countdown)
       => /\ lastEvent' = Event("tick", 0)
          /\ \E c \in Calls : ~Running(c) /\ call'[c].pc = "fetch"]_vars


\* C28: the results of the cycles are applied to the camera list in the
\* order the cycles were started: the result of a cycle is never applied
\* after the result of a cycle started later.  Checked for the first cycle
\* of all, the one started on mount: when its result is applied, no other
\* cycle is over yet.
C28_AppliedInOrder ==
  [][\A c \in Calls :
       (/\ app = "mounted"
        /\ call[c].isInitial
        /\ call[c].pc \in {"done", "rejected"}
        /\ lastEvent' = Event("resume", c))
         => \A d \in Calls \ {c} : call[d].pc # "over"]_vars


\* C27: a request for the feed document, direct or through a relay of the
\* pool, is answered from the network, and no response to it is in the
\* cache afterwards.
C27_FeedNetworkOnly ==
  (probe.fn = "fetch event" /\ probe.args.request \in FeedRequests)
    => /\ probe.value.answer \in {"network", "error"}
       /\ ~probe.value.cached


\* C29: normalizeImageUrl applied twice yields what it yields applied once,
\* and every non-empty result of it, in a sync result too, is an absolute
\* address that a second application leaves unchanged.
C29_Idempotent ==
  /\ probe.fn = "normalizeImageUrl" =>
        /\ probe.twice = probe.value
        /\ probe.value # << >> => IsAbsolute(probe.value)
  /\ \A i \in 1..Len(SyncResult) :
        (SyncResult[i].source = SOURCE_LIVE /\ SyncResult[i].imageUrl # << >>)
          => /\ IsAbsolute(SyncResult[i].imageUrl)
             /\ normalizeImageUrl(SyncResult[i].imageUrl) = SyncResult[i].imageUrl


\* the sessions that are being connected or are open
InProgress == {s \in Sessions : voice.pc[s] \in {"media", "connecting", "opened", "active"}}

\* C30: at most one live voice session is being connected or open at any
\* time, and once stopSession has run no session is open.
C30_SingleSession ==
  /\ Cardinality(InProgress) <= 1
  /\ voice.last = "stopSession"
       => \A s \in Sessions : voice.pc[s] \notin {"opened", "active"}

====
